---- MODULE Spec2Model ----
(***************************************************************************)
(* Type-level arithmetic of src/main.rs: Peano naturals as types, the      *)
(* traits Congruent, Sum, Difference, Product and the four orderings as    *)
(* relations resolved by the trait solver, and the proof!/proofs! macros   *)
(* that turn each proposition into a `const _: Option<T> = None;` item.    *)
(*                                                                         *)
(* A type is a sequence of constructor tags, outermost first:              *)
(*   Zero = <<"Zero">>,  Successor<Zero> = <<"Successor", "Zero">>,        *)
(*   ()   = <<"Unit">>.                                                    *)
(* Trait resolution is modelled one impl selection at a time: `cur` is the *)
(* obligation being resolved, `stack` the projections and bounds that      *)
(* still wait for its Output.                                              *)
(***************************************************************************)
EXTENDS Naturals, Sequences, FiniteSets

\* Deepest Successor nesting of an operand written in a proposition.
MaxDepth == 4
\* Longest proofs! invocation, in propositions.
MaxProps == 2

VARIABLES
    root,      \* the proposition being verified: [rel, a, b, conts]
    cur,       \* the trait obligation being resolved: [rel, a, b]
    stack,     \* pending uses of cur's Output, innermost first
    val,       \* the last resolved Output (NoOutput before any)
    status,    \* "idle" | "resolving" | "yielded" | "resolved" | "unresolved"
    source,    \* the propositions written in the proofs! invocation
    items,     \* the token trees / items the invocation has expanded to
    checking   \* index in items of the const item being type-checked, or 0

vars == <<root, cur, stack, val, status, source, items, checking>>
machine == <<root, cur, stack, val, status>>
harness == <<source, items, checking>>

----------------------------------------------------------------------------
\* Types.

Zero == <<"Zero">>
Unit == <<"Unit">>
Successor(N) == <<"Successor">> \o N
NoOutput == <<>>

IsSuccessor(T) == Len(T) > 1 /\ Head(T) = "Successor"
\* The N of Successor<N>.
Inner(T) == Tail(T)

RECURSIVE IsNat(_)
IsNat(T) ==
    \/ T = Zero
    \/ IsSuccessor(T) /\ IsNat(Inner(T))

\* struct Successor<N: Nat>: a Successor of a non-Nat is not a type at all.
WellFormed(T) == T = Unit \/ IsNat(T)

RECURSIVE Reify(_)
Reify(T) == IF T = Zero THEN 0 ELSE 1 + Reify(Inner(T))

\* The numerals One, Two, ... as the aliases spell them out.
RECURSIVE Lit(_)
Lit(n) == IF n = 0 THEN Zero ELSE Successor(Lit(n - 1))

\* Equal<A, B>, once its bound B: Congruent<A> is known to hold.
EqualTy(A, B) == <<"Equal">> \o A \o B

----------------------------------------------------------------------------
\* Impl selection. Each operator answers, for Self = A and the trait's
\* parameter B, which impl applies and what it asks for:
\*   impl = "none"               no impl matches
\*   rel = ""                    the impl gives Output = out outright
\*   otherwise                   a where clause <a as rel<b>> is resolved first
\*                               and then = "Output" : Output is its Output
\*                                    then = "SumWith": Output is <that as Sum<arg>>::Output
\*                                    then = "Unit"   : Output is ()

Step(i, r, x, y, o, t, g) ==
    [impl |-> i, rel |-> r, a |-> x, b |-> y, out |-> o, then |-> t, arg |-> g]
NoImpl == Step("none", "", Zero, Zero, NoOutput, "", Zero)
Gives(i, o) == Step(i, "", Zero, Zero, o, "", Zero)
Needs(i, r, x, y, t, g) == Step(i, r, x, y, NoOutput, t, g)

\* Variant: only the outermost constructors are compared.
CongruentImplShallow(A, B) ==
    IF WellFormed(A) /\ WellFormed(B) /\ Head(B) = Head(A)
    THEN Gives("Congruent", EqualTy(A, B))
    ELSE NoImpl

CongruentImpl(A, B) ==
    IF WellFormed(A) /\ WellFormed(B) /\ B = A
    THEN Gives("Congruent", EqualTy(A, B))
    ELSE NoImpl

\* Variant: the recursive impl peels the addend without growing Self.
SumImplKeepsSelf(A, B) ==
    IF IsNat(A) /\ B = Zero
    THEN Gives("SumZero", A)
    ELSE IF IsNat(A) /\ IsSuccessor(B) /\ IsNat(Inner(B))
    THEN Needs("SumSucc", "Sum", A, Inner(B), "Output", Zero)
    ELSE NoImpl

\* Variant: the recursive impl swaps Self and the addend.
SumImplSwaps(A, B) ==
    IF IsNat(A) /\ B = Zero
    THEN Gives("SumZero", A)
    ELSE IF IsNat(A) /\ IsSuccessor(B) /\ IsNat(Inner(B))
    THEN Needs("SumSucc", "Sum", Inner(B), Successor(A), "Output", Zero)
    ELSE NoImpl

SumImpl(A, B) ==
    IF IsNat(A) /\ B = Zero
    THEN Gives("SumZero", A)
    ELSE IF IsNat(A) /\ IsSuccessor(B) /\ IsNat(Inner(B))
    THEN Needs("SumSucc", "Sum", Successor(A), Inner(B), "Output", Zero)
    ELSE NoImpl

\* Variant: subtraction saturates at Zero instead of having no impl.
DifferenceImplSaturating(A, B) ==
    IF IsNat(A) /\ B = Zero
    THEN Gives("DifferenceZero", A)
    ELSE IF A = Zero /\ IsNat(B)
    THEN Gives("DifferenceZero", Zero)
    ELSE IF /\ IsSuccessor(A) /\ IsNat(Inner(A))
            /\ IsSuccessor(B) /\ IsNat(Inner(B))
    THEN Needs("DifferenceSucc", "Difference", Inner(A), Inner(B), "Output", Zero)
    ELSE NoImpl

\* Variant: the base impl gives Zero instead of what is left of Self.
DifferenceImplDropsRest(A, B) ==
    IF IsNat(A) /\ B = Zero
    THEN Gives("DifferenceZero", Zero)
    ELSE IF /\ IsSuccessor(A) /\ IsNat(Inner(A))
            /\ IsSuccessor(B) /\ IsNat(Inner(B))
    THEN Needs("DifferenceSucc", "Difference", Inner(A), Inner(B), "Output", Zero)
    ELSE NoImpl

DifferenceImpl(A, B) ==
    IF IsNat(A) /\ B = Zero
    THEN Gives("DifferenceZero", A)
    ELSE IF /\ IsSuccessor(A) /\ IsNat(Inner(A))
            /\ IsSuccessor(B) /\ IsNat(Inner(B))
    THEN Needs("DifferenceSucc", "Difference", Inner(A), Inner(B), "Output", Zero)
    ELSE NoImpl

\* Variant: the base impl gives Self instead of Zero.
ProductImplBaseSelf(A, B) ==
    IF WellFormed(A) /\ B = Zero
    THEN Gives("ProductZero", A)
    ELSE IF IsNat(A) /\ IsSuccessor(B) /\ IsNat(Inner(B))
    THEN Needs("ProductSucc", "Product", A, Inner(B), "SumWith", A)
    ELSE NoImpl

ProductImpl(A, B) ==
    IF WellFormed(A) /\ B = Zero
    THEN Gives("ProductZero", Zero)
    ELSE IF IsNat(A) /\ IsSuccessor(B) /\ IsNat(Inner(B))
    THEN Needs("ProductSucc", "Product", A, Inner(B), "SumWith", A)
    ELSE NoImpl

\* Variant: the where clause forgets the Successor.
LessThanImplNonStrict(A, B) ==
    IF IsNat(A) /\ IsNat(B)
    THEN Needs("LessThan", "Difference", B, A, "Unit", Zero)
    ELSE NoImpl

LessThanImpl(A, B) ==
    IF IsNat(A) /\ IsNat(B)
    THEN Needs("LessThan", "Difference", B, Successor(A), "Unit", Zero)
    ELSE NoImpl

LessThanOrEqualImpl(A, B) ==
    IF IsNat(A) /\ IsNat(B)
    THEN Needs("LessThanOrEqual", "Difference", B, A, "Unit", Zero)
    ELSE NoImpl

GreaterThanImpl(A, B) ==
    IF IsNat(A) /\ IsNat(B)
    THEN Needs("GreaterThan", "Difference", A, Successor(B), "Unit", Zero)
    ELSE NoImpl

\* Variant: the where clause subtracts the wrong way round.
GreaterThanOrEqualImplSwapped(A, B) ==
    IF IsNat(A) /\ IsNat(B)
    THEN Needs("GreaterThanOrEqual", "Difference", B, A, "Unit", Zero)
    ELSE NoImpl

GreaterThanOrEqualImpl(A, B) ==
    IF IsNat(A) /\ IsNat(B)
    THEN Needs("GreaterThanOrEqual", "Difference", A, B, "Unit", Zero)
    ELSE NoImpl

Orderings == {"LessThan", "LessThanOrEqual", "GreaterThan", "GreaterThanOrEqual"}
Arithmetic == {"Sum", "Difference", "Product"}
Relations == Arithmetic \cup Orderings

Impl(rel, A, B) ==
    CASE rel = "Congruent" -> CongruentImpl(A, B)
      [] rel = "Sum" -> SumImpl(A, B)
      [] rel = "Difference" -> DifferenceImpl(A, B)
      [] rel = "Product" -> ProductImpl(A, B)
      [] rel = "LessThan" -> LessThanImpl(A, B)
      [] rel = "LessThanOrEqual" -> LessThanOrEqualImpl(A, B)
      [] rel = "GreaterThan" -> GreaterThanImpl(A, B)
      [] rel = "GreaterThanOrEqual" -> GreaterThanOrEqualImpl(A, B)
      [] OTHER -> NoImpl

----------------------------------------------------------------------------
\* Propositions. <a as rel<b>>::Output, possibly used by an enclosing type:
\*   conts = <<>>                          the projection itself
\*   conts = <<CongruentTo(L)>>            Equal<L, <a as rel<b>>::Output>
\*   conts = <<SumWith(B), CongruentTo(A)>>
\*                       Equal<A, <<a as rel<b>>::Output as Sum<B>>::Output>
\* and, for rel = "Congruent", Equal<a, b> itself.

Frame(o, g) == [op |-> o, arg |-> g]
SumWith(B) == Frame("SumWith", B)
CongruentTo(L) == Frame("CongruentTo", L)
UnitOutput == Frame("Unit", Zero)

Prop(r, x, y, c) == [rel |-> r, a |-> x, b |-> y, conts |-> c]
NoProp == Prop("", Zero, Zero, <<>>)

RECURSIVE TypesUpTo(_)
TypesUpTo(d) ==
    IF d = 0 THEN {Zero, Unit}
    ELSE {Zero, Unit} \cup {Successor(T) : T \in TypesUpTo(d - 1)}

Types == TypesUpTo(MaxDepth)
Lits == {Lit(n) : n \in 0..(MaxDepth * MaxDepth)}

Goals ==
    {Prop(r, x, y, <<>>) : r \in Relations \cup {"Congruent"}, x \in Types, y \in Types}
    \cup {Prop(r, x, y, <<CongruentTo(L)>>) :
            r \in Arithmetic, x \in Types, y \in Types, L \in Lits}
    \cup {Prop("Difference", x, y, <<SumWith(y), CongruentTo(x)>>) :
            x \in Types, y \in Types}

----------------------------------------------------------------------------
\* The whole resolution of a proposition, as the recursion the impls spell.

RECURSIVE Resolve(_, _, _)
Resolve(rel, A, B) ==
    LET s == Impl(rel, A, B) IN
    IF s.impl = "none" THEN NoOutput
    ELSE IF s.rel = "" THEN s.out
    ELSE LET o == Resolve(s.rel, s.a, s.b) IN
         IF o = NoOutput THEN NoOutput
         ELSE IF s.then = "SumWith" THEN Resolve("Sum", o, s.arg)
         ELSE IF s.then = "Unit" THEN Unit
         ELSE o

RECURSIVE Through(_, _)
Through(o, conts) ==
    IF o = NoOutput \/ conts = <<>> THEN o
    ELSE LET f == Head(conts) IN
         Through(IF f.op = "SumWith" THEN Resolve("Sum", o, f.arg)
                 ELSE IF f.op = "CongruentTo" THEN Resolve("Congruent", f.arg, o)
                 ELSE Unit,
                 Tail(conts))

ResolveProp(p) == Through(Resolve(p.rel, p.a, p.b), p.conts)
Resolves(rel, A, B) == Resolve(rel, A, B) # NoOutput

----------------------------------------------------------------------------
\* The resolution machine.

Load(p) ==
    /\ root' = p
    /\ cur' = [rel |-> p.rel, a |-> p.a, b |-> p.b]
    /\ stack' = p.conts
    /\ val' = NoOutput
    /\ status' = "resolving"

\* Impl i is the one that matches the current obligation.
Selected(i) ==
    /\ status = "resolving"
    /\ Impl(cur.rel, cur.a, cur.b).impl = i

\* Do what the selected impl asks: give its Output, or resolve its where
\* clause first and keep what is to be done with that Output.
Obey(s) ==
    /\ IF s.rel = ""
       THEN /\ val' = s.out
            /\ status' = "yielded"
            /\ UNCHANGED <<cur, stack>>
       ELSE /\ cur' = [rel |-> s.rel, a |-> s.a, b |-> s.b]
            /\ stack' = IF s.then = "Output" THEN stack
                        ELSE <<Frame(s.then, s.arg)>> \o stack
            /\ UNCHANGED <<val, status>>
    /\ UNCHANGED <<root, harness>>

CongruentRefl ==
    /\ Selected("Congruent")
    /\ Obey(CongruentImpl(cur.a, cur.b))

SumZero ==
    /\ Selected("SumZero")
    /\ Obey(SumImpl(cur.a, cur.b))

SumSucc ==
    /\ Selected("SumSucc")
    /\ Obey(SumImpl(cur.a, cur.b))

DifferenceZero ==
    /\ Selected("DifferenceZero")
    /\ Obey(DifferenceImpl(cur.a, cur.b))

DifferenceSucc ==
    /\ Selected("DifferenceSucc")
    /\ Obey(DifferenceImpl(cur.a, cur.b))

ProductZero ==
    /\ Selected("ProductZero")
    /\ Obey(ProductImpl(cur.a, cur.b))

ProductSucc ==
    /\ Selected("ProductSucc")
    /\ Obey(ProductImpl(cur.a, cur.b))

LessThan ==
    /\ Selected("LessThan")
    /\ Obey(LessThanImpl(cur.a, cur.b))

LessThanOrEqual ==
    /\ Selected("LessThanOrEqual")
    /\ Obey(LessThanOrEqualImpl(cur.a, cur.b))

GreaterThan ==
    /\ Selected("GreaterThan")
    /\ Obey(GreaterThanImpl(cur.a, cur.b))

GreaterThanOrEqual ==
    /\ Selected("GreaterThanOrEqual")
    /\ Obey(GreaterThanOrEqualImpl(cur.a, cur.b))

\* No impl matches: the trait bound is not satisfied, a compile error.
Unsatisfied ==
    /\ status = "resolving"
    /\ Impl(cur.rel, cur.a, cur.b).impl = "none"
    /\ status' = "unresolved"
    /\ val' = NoOutput
    /\ UNCHANGED <<root, cur, stack, harness>>

\* <Output as Sum<arg>>::Output: the resolved Output becomes Self of a Sum.
ProjectSum ==
    /\ status = "yielded" /\ stack # <<>> /\ Head(stack).op = "SumWith"
    /\ cur' = [rel |-> "Sum", a |-> val, b |-> Head(stack).arg]
    /\ stack' = Tail(stack)
    /\ status' = "resolving"
    /\ UNCHANGED <<root, val, harness>>

\* type Output = (): the ordering's where clause held.
OrderingOutput ==
    /\ status = "yielded" /\ stack # <<>> /\ Head(stack).op = "Unit"
    /\ val' = Unit
    /\ stack' = Tail(stack)
    /\ UNCHANGED <<root, cur, status, harness>>

\* Equal<arg, Output>: the bound Output: Congruent<arg> is to be resolved.
EqualBound ==
    /\ status = "yielded" /\ stack # <<>> /\ Head(stack).op = "CongruentTo"
    /\ cur' = [rel |-> "Congruent", a |-> Head(stack).arg, b |-> val]
    /\ stack' = Tail(stack)
    /\ status' = "resolving"
    /\ UNCHANGED <<root, val, harness>>

\* Nothing waits for the Output: the type is valid.
Accept ==
    /\ status = "yielded" /\ stack = <<>>
    /\ status' = "resolved"
    /\ UNCHANGED <<root, cur, stack, val, harness>>

Resolution ==
    \/ CongruentRefl
    \/ SumZero
    \/ SumSucc
    \/ DifferenceZero
    \/ DifferenceSucc
    \/ ProductZero
    \/ ProductSucc
    \/ LessThan
    \/ LessThanOrEqual
    \/ GreaterThan
    \/ GreaterThanOrEqual
    \/ Unsatisfied
    \/ ProjectSum
    \/ OrderingOutput
    \/ EqualBound
    \/ Accept

----------------------------------------------------------------------------
\* The proofs! invocation as written: propositions separated by `;`, each
\* either `type Name = T` or `T`, with or without a `;` after the last.

Tok(k, n, p) == [t |-> k, name |-> n, prop |-> p]
TypeKw == Tok("type", 0, NoProp)
EqSign == Tok("=", 0, NoProp)
Semi == Tok(";", 0, NoProp)
Ident(n) == Tok("ident", n, NoProp)
Ty(p) == Tok("ty", 0, p)

\* Propositions a proofs! block is written from.
Pool ==
    { Prop("Product", Lit(1), Lit(1), <<CongruentTo(Lit(1))>>),
      Prop("LessThan", Zero, Zero, <<>>),
      Prop("LessThanOrEqual", Lit(1), Lit(1), <<>>),
      Prop("GreaterThan", Lit(1), Zero, <<>>),
      Prop("GreaterThanOrEqual", Zero, Lit(1), <<>>) }

Entries == [named : BOOLEAN, prop : Pool]

RECURSIVE SeqsUpTo(_, _)
SeqsUpTo(S, n) ==
    IF n = 0 THEN {<<>>}
    ELSE LET shorter == SeqsUpTo(S, n - 1) IN
         shorter \cup {Append(q, e) : q \in shorter, e \in S}

Sources == [props : SeqsUpTo(Entries, MaxProps), trailing : BOOLEAN]

\* The i-th proposition, named after its position when it is named.
RECURSIVE Written(_, _)
Written(props, i) ==
    IF i > Len(props) THEN <<>>
    ELSE (IF props[i].named
          THEN <<TypeKw, Ident(i), EqSign, Ty(props[i].prop)>>
          ELSE <<Ty(props[i].prop)>>)
         \o (IF i < Len(props) THEN <<Semi>> ELSE <<>>)
         \o Written(props, i + 1)

Tokens(src) == Written(src.props, 1) \o (IF src.trailing THEN <<Semi>> ELSE <<>>)

\* Token trees and items of the expansion.
Item(k, ts, n, p, v) == [kind |-> k, toks |-> ts, name |-> n, prop |-> p, verdict |-> v]
Invoke(m, ts) == Item(m, ts, 0, NoProp, "")
Alias(n, p) == Item("alias", <<>>, n, p, "")
\* const _: Option<T> = None; where T is a type or the name of an alias.
Const(tok) == Item("const", <<>>, tok.name, tok.prop, "")

\* What $t:ty accepts: a type, and so also a lone identifier.
IsTy(tok) == tok.t = "ty" \/ tok.t = "ident"

From(ts, i) == SubSeq(ts, i, Len(ts))

\* proof! { type $name:ident = $t:ty }
ProofNamedMatches(ts) ==
    /\ Len(ts) = 4
    /\ ts[1].t = "type" /\ ts[2].t = "ident" /\ ts[3].t = "=" /\ IsTy(ts[4])

ProofNamedExpansion(ts) ==
    <<Alias(ts[2].name, ts[4].prop), Invoke("proof!", <<ts[2]>>)>>

\* proof! { $t:ty }
ProofTypeMatches(ts) == Len(ts) = 1 /\ IsTy(ts[1])

ProofTypeExpansion(ts) == <<Const(ts[1])>>

\* proofs! { type $name:ident = $t:ty $(; $($rest:tt)*)? }
ProofsNamedMatches(ts) ==
    /\ Len(ts) >= 4
    /\ ts[1].t = "type" /\ ts[2].t = "ident" /\ ts[3].t = "=" /\ IsTy(ts[4])
    /\ Len(ts) > 4 => ts[5].t = ";"

ProofsNamedExpansion(ts) ==
    <<Invoke("proof!", SubSeq(ts, 1, 4))>>
    \o (IF Len(ts) > 4 THEN <<Invoke("proofs!", From(ts, 6))>> ELSE <<>>)

\* proofs! { $t:ty $(; $($rest:tt)*)? }
ProofsTypeMatches(ts) ==
    /\ Len(ts) >= 1
    /\ IsTy(ts[1])
    /\ Len(ts) > 1 => ts[2].t = ";"

\* Variant: the rest after the `;` is not handed on.
ProofsTypeExpansionDropsRest(ts) ==
    <<Invoke("proof!", <<ts[1]>>)>>

ProofsTypeExpansion(ts) ==
    <<Invoke("proof!", <<ts[1]>>)>>
    \o (IF Len(ts) > 1 THEN <<Invoke("proofs!", From(ts, 3))>> ELSE <<>>)

\* proofs! { $($t:ty);* $(;)? }
RECURSIVE ProofsListMatches(_)
ProofsListMatches(ts) ==
    IF ts = <<>> \/ ts = <<Semi>> THEN TRUE
    ELSE IF ~IsTy(ts[1]) THEN FALSE
    ELSE IF Len(ts) = 1 THEN TRUE
    ELSE ts[2].t = ";" /\ ProofsListMatches(From(ts, 3))

RECURSIVE ProofsListExpansion(_)
ProofsListExpansion(ts) ==
    IF ts = <<>> \/ ts = <<Semi>> THEN <<>>
    ELSE <<Invoke("proof!", <<ts[1]>>)>> \o ProofsListExpansion(From(ts, 3))

Splice(seq, i, new) == SubSeq(seq, 1, i - 1) \o new \o From(seq, i + 1)

Expand(i, new) ==
    /\ items' = Splice(items, i, new)
    /\ UNCHANGED <<machine, source, checking>>

Invoked(i, m) == i \in 1..Len(items) /\ items[i].kind = m

\* The rules of a macro are tried in the order written; the first that
\* matches is transcribed.
ProofNamed ==
    \E i \in 1..Len(items) :
        /\ Invoked(i, "proof!")
        /\ ProofNamedMatches(items[i].toks)
        /\ Expand(i, ProofNamedExpansion(items[i].toks))

ProofType ==
    \E i \in 1..Len(items) :
        /\ Invoked(i, "proof!")
        /\ ~ProofNamedMatches(items[i].toks)
        /\ ProofTypeMatches(items[i].toks)
        /\ Expand(i, ProofTypeExpansion(items[i].toks))

ProofsNamed ==
    \E i \in 1..Len(items) :
        /\ Invoked(i, "proofs!")
        /\ ProofsNamedMatches(items[i].toks)
        /\ Expand(i, ProofsNamedExpansion(items[i].toks))

ProofsType ==
    \E i \in 1..Len(items) :
        /\ Invoked(i, "proofs!")
        /\ ~ProofsNamedMatches(items[i].toks)
        /\ ProofsTypeMatches(items[i].toks)
        /\ Expand(i, ProofsTypeExpansion(items[i].toks))

ProofsList ==
    \E i \in 1..Len(items) :
        /\ Invoked(i, "proofs!")
        /\ ~ProofsNamedMatches(items[i].toks)
        /\ ~ProofsTypeMatches(items[i].toks)
        /\ ProofsListMatches(items[i].toks)
        /\ Expand(i, ProofsListExpansion(items[i].toks))

\* No macro invocation is left.
Expanded == \A i \in 1..Len(items) : items[i].kind \in {"alias", "const"}

\* The type a const item names: written out, or the alias of that name.
TypeOf(it) ==
    IF it.name = 0 THEN it.prop
    ELSE LET as == {j \in 1..Len(items) :
                        items[j].kind = "alias" /\ items[j].name = it.name} IN
         IF as = {} THEN NoProp ELSE items[CHOOSE j \in as : TRUE].prop

\* The compiler type-checks the const items, each on its own, in no
\* particular order: the Option<T> of one is valid exactly when T resolves.
StartCheck ==
    \E i \in 1..Len(items) :
        /\ Expanded
        /\ checking = 0
        /\ items[i].kind = "const" /\ items[i].verdict = ""
        /\ checking' = i
        /\ Load(TypeOf(items[i]))
        /\ UNCHANGED <<source, items>>

FinishCheck ==
    /\ checking # 0
    /\ status \in {"resolved", "unresolved"}
    /\ items' = [items EXCEPT ![checking].verdict =
                    IF status = "resolved" THEN "accepted" ELSE "rejected"]
    /\ checking' = 0
    /\ status' = "idle"
    /\ UNCHANGED <<root, cur, stack, val, source>>

----------------------------------------------------------------------------
\* Properties.

Done == status \in {"resolved", "unresolved"}
NatOperands == IsNat(root.a) /\ IsNat(root.b)
\* The proposition is the bare projection <a as rel<b>>::Output.
Bare(rel) == root.rel = rel /\ root.conts = <<>> /\ NatOperands
\* The proposition is Equal<L, <a as rel<b>>::Output> for some numeral L.
Against(rel) ==
    /\ root.rel = rel /\ NatOperands
    /\ Len(root.conts) = 1 /\ root.conts[1].op = "CongruentTo"
Expected == root.conts[1].arg
RoundTrip ==
    /\ root.rel = "Difference" /\ NatOperands
    /\ root.conts = <<SumWith(root.b), CongruentTo(root.a)>>
a0 == Reify(root.a)
b0 == Reify(root.b)

\* C1: for naturals A and B, Sum(A, B) always resolves and its Output is the
\* numeral of depth a + b: the bare projection never fails and yields that
\* numeral, and Equal<L, Sum(A, B)> is valid exactly for that numeral L
\* (so Sum(1,1)=2, Sum(1,2)=3, Sum(2,2)=4, Sum(2,3)=5).
SumIsTotalAndAdds ==
    /\ Bare("Sum") =>
        /\ status # "unresolved"
        /\ status = "resolved" => val = Lit(a0 + b0)
        /\ Resolve("Sum", root.a, root.b) = Lit(a0 + b0)
    /\ Against("Sum") /\ Done =>
        (status = "resolved" <=> Expected = Lit(a0 + b0))

SumWitness ==
    /\ status = "resolved"
    /\ root = Prop("Sum", Lit(2), Lit(3), <<>>)
    /\ val = Lit(5)

\* C2: for naturals A and B, Difference(A, B) resolves exactly when b <= a,
\* its Output is then the numeral of depth a - b, and otherwise there is no
\* Output at all (no saturated or wrapped result); Difference(Zero,
\* Successor<B>) never resolves.
DifferenceIsTruncated ==
    /\ Bare("Difference") =>
        /\ Done => (status = "resolved" <=> b0 <= a0)
        /\ status = "resolved" => val = Lit(a0 - b0)
        /\ status = "unresolved" => val = NoOutput
        /\ root.a = Zero /\ root.b # Zero => status # "resolved"
        /\ Resolves("Difference", root.a, root.b) <=> b0 <= a0
    /\ Against("Difference") /\ Done =>
        (status = "resolved" <=> b0 <= a0 /\ Expected = Lit(a0 - b0))

DifferenceWitness ==
    /\ status = "unresolved"
    /\ root = Prop("Difference", Zero, Lit(1), <<>>)
    /\ val = NoOutput

\* C3: for naturals A and B, Product(A, B) resolves and its Output is the
\* numeral of depth a * b; Product(A, Zero) = Zero, Product(A, One) = A,
\* Product(1,1)=1, Product(2,2)=4, Product(2,3)=6.
ProductMultiplies ==
    /\ Bare("Product") =>
        /\ status # "unresolved"
        /\ status = "resolved" => val = Lit(a0 * b0)
        /\ status = "resolved" /\ root.b = Zero => val = Zero
        /\ status = "resolved" /\ root.b = Lit(1) => val = root.a
        /\ Resolve("Product", root.a, root.b) = Lit(a0 * b0)
    /\ Against("Product") /\ Done =>
        (status = "resolved" <=> Expected = Lit(a0 * b0))

ProductWitness ==
    /\ status = "resolved"
    /\ root = Prop("Product", Lit(2), Lit(3), <<>>)
    /\ val = Lit(6)

\* The one Difference an ordering's where clause asks for.
Underlying(rel, A, B) ==
    CASE rel = "LessThan" -> <<B, Successor(A)>>
      [] rel = "LessThanOrEqual" -> <<B, A>>
      [] rel = "GreaterThan" -> <<A, Successor(B)>>
      [] rel = "GreaterThanOrEqual" -> <<A, B>>

Holds(rel, x, y) ==
    CASE rel = "LessThan" -> x < y
      [] rel = "LessThanOrEqual" -> x <= y
      [] rel = "GreaterThan" -> x > y
      [] rel = "GreaterThanOrEqual" -> x >= y

\* C4: for naturals A and B, each ordering resolves exactly when its single
\* underlying Difference resolves (LessThan: Difference(B, Successor<A>),
\* LessThanOrEqual: Difference(B, A), GreaterThan: Difference(A,
\* Successor<B>), GreaterThanOrEqual: Difference(A, B)), that is exactly
\* when a < b, a <= b, a > b, a >= b; LessThan(0, 0) and LessThan(1, 0) fail.
OrderingsFollowDifference ==
    (root.rel \in Orderings /\ root.conts = <<>> /\ NatOperands) =>
        LET u == Underlying(root.rel, root.a, root.b) IN
        /\ Done => (status = "resolved" <=> Holds(root.rel, a0, b0))
        /\ Done => (status = "resolved" <=> Resolves("Difference", u[1], u[2]))
        /\ status = "resolved" => val = Unit
        /\ (status = "resolving" /\ cur.rel # root.rel) =>
              /\ cur.rel = "Difference"
              /\ stack = <<UnitOutput>>
              /\ Resolves("Difference", cur.a, cur.b)
                    <=> Resolves("Difference", u[1], u[2])
        /\ (root.rel = "LessThan" /\ root.b = Zero) => status # "resolved"

OrderingsWitness ==
    /\ status = "unresolved"
    /\ root = Prop("LessThan", Lit(1), Zero, <<>>)
    /\ cur.rel = "Difference"

\* C5: for naturals A and B, Equal<A, B> is valid exactly when A and B are
\* the same closed value; and Equal<L, <a as rel<b>>::Output> is valid only
\* when the fully resolved Output is structurally identical to L.
CongruentIsIdentity ==
    /\ Bare("Congruent") /\ Done =>
        /\ status = "resolved" <=> root.a = root.b
        /\ status = "resolved" <=> a0 = b0
        /\ status = "resolved" => val = EqualTy(root.a, root.a)
    /\ \A rel \in Arithmetic :
        Against(rel) /\ status = "resolved" =>
            /\ Resolve(rel, root.a, root.b) = Expected
            /\ val = EqualTy(Expected, Expected)

CongruentWitness ==
    /\ status = "unresolved"
    /\ root = Prop("Congruent", Lit(1), Lit(2), <<>>)

\* C6: no relation resolves when one of its operands is not a natural
\* number (neither Zero nor a Successor of a natural).
MalformedIsRejected ==
    status = "resolved" => NatOperands

\* C8: every resolution ends, resolved or with no matching impl, after
\* finitely many impl selections, and each recursive selection of Sum,
\* Difference or Product is on a second operand of strictly smaller depth.
SelfRecursionDescends ==
    (status = "resolving" /\ cur' # cur /\ cur'.rel = cur.rel) =>
        /\ cur.rel \in Arithmetic
        /\ IsNat(cur.b) /\ IsNat(cur'.b)
        /\ Reify(cur'.b) < Reify(cur.b)

ResolutionTerminates ==
    /\ <>Done
    /\ [][SelfRecursionDescends]_vars

TerminationWitness ==
    /\ status = "resolved"
    /\ root = Prop("Product", Lit(3), Lit(3), <<>>)

\* C9: for naturals A and B with LessThanOrEqual(B, A) resolving,
\* Difference(A, B) resolves and Sum(Difference(A, B), B) resolves to a
\* value congruent to A.
SubtractThenAddIsIdentity ==
    (RoundTrip /\ Resolves("LessThanOrEqual", root.b, root.a)) =>
        /\ status # "unresolved"
        /\ Resolves("Difference", root.a, root.b)
        /\ Resolve("Sum", Resolve("Difference", root.a, root.b), root.b) = root.a
        /\ status = "resolved" => val = EqualTy(root.a, root.a)

RoundTripWitness ==
    /\ status = "resolved"
    /\ root = Prop("Difference", Lit(3), Lit(2), <<SumWith(Lit(2)), CongruentTo(Lit(3))>>)

\* C10: for distinct naturals A and B exactly one of LessThan(A, B) and
\* GreaterThan(A, B) resolves, LessThanOrEqual(A, B) resolves exactly when
\* LessThan(A, B) does and GreaterThanOrEqual(A, B) exactly when
\* GreaterThan(A, B) does; for A identical to B neither strict ordering
\* resolves and both non-strict ones do.
OrderingsAreConsistent ==
    (root.rel \in Orderings /\ root.conts = <<>> /\ NatOperands) =>
        LET lt == Resolves("LessThan", root.a, root.b)
            le == Resolves("LessThanOrEqual", root.a, root.b)
            gt == Resolves("GreaterThan", root.a, root.b)
            ge == Resolves("GreaterThanOrEqual", root.a, root.b)
        IN
        /\ root.a # root.b => /\ lt # gt
                              /\ le <=> lt
                              /\ ge <=> gt
        /\ root.a = root.b => ~lt /\ ~gt /\ le /\ ge
        /\ Done => (status = "resolved" <=> Resolves(root.rel, root.a, root.b))

ConsistencyWitness ==
    /\ status = "resolved"
    /\ root.rel = "GreaterThanOrEqual"
    /\ root.a = Lit(2) /\ root.b = Lit(1)

Init ==
    /\ \E p \in Goals :
        /\ root = p
        /\ cur = [rel |-> p.rel, a |-> p.a, b |-> p.b]
        /\ stack = p.conts
    /\ val = NoOutput
    /\ status = "resolving"
    /\ source = [props |-> <<>>, trailing |-> FALSE]
    /\ items = <<>>
    /\ checking = 0

Next == Resolution

\* One relation expression handed to the trait solver.
Spec == Init /\ [][Next]_vars

\* The trait solver keeps selecting impls while an obligation is open.
FairSpec == Spec /\ WF_vars(Next)

HarnessInit ==
    /\ root = NoProp
    /\ cur = [rel |-> "", a |-> Zero, b |-> Zero]
    /\ stack = <<>>
    /\ val = NoOutput
    /\ status = "idle"
    /\ source \in Sources
    /\ items = <<Invoke("proofs!", Tokens(source))>>
    /\ checking = 0

HarnessNext ==
    \/ ProofNamed
    \/ ProofType
    \/ ProofsNamed
    \/ ProofsType
    \/ ProofsList
    \/ StartCheck
    \/ Resolution
    \/ FinishCheck

IsConst(it) == it.kind = "const"
IsAlias(it) == it.kind = "alias"
IsNamed(e) == e.named

\* C7: whatever the interleaving of `type Name = T` and `T` propositions,
\* and with or without a trailing `;`, the expansion holds exactly one const
\* check per proposition, in order, plus one alias per named proposition,
\* nothing skipped and nothing twice; each check is accepted or rejected by
\* its own proposition alone, and a rejection leaves every other check to be
\* made.
EveryPropositionIsChecked ==
    Expanded =>
        LET cs == SelectSeq(items, IsConst)
            as == SelectSeq(items, IsAlias)
            ns == SelectSeq(source.props, IsNamed)
        IN
        /\ Len(cs) = Len(source.props)
        /\ \A k \in 1..Len(cs) :
            /\ TypeOf(cs[k]) = source.props[k].prop
            /\ cs[k].name # 0 <=> source.props[k].named
        /\ Len(as) = Len(ns)
        /\ \A k \in 1..Len(as) : as[k].prop = ns[k].prop
        /\ Len(items) = Len(cs) + Len(as)
        /\ \A i \in 1..Len(items) :
            items[i].verdict # "" =>
                /\ IsConst(items[i])
                /\ items[i].verdict = "accepted"
                      <=> ResolveProp(TypeOf(items[i])) # NoOutput
        /\ ~(ENABLED HarnessNext) =>
            \A i \in 1..Len(items) : IsConst(items[i]) => items[i].verdict # ""

HarnessWitness ==
    /\ Expanded
    /\ Len(source.props) = 2
    /\ source.props[1].named /\ ~source.props[2].named /\ source.trailing
    /\ Len(items) = 3
    /\ items[2].verdict = "rejected"
    /\ items[3].verdict = "accepted"

\* A proofs! block, expanded and then type-checked item by item.
HarnessSpec == HarnessInit /\ [][HarnessNext]_vars

====
